---- MODULE Spec2Model ----
(***************************************************************************)
(* Notes API (express + mariadb pool + express-validator).                 *)
(* State: the notes table and its AUTO_INCREMENT counter, the number of    *)
(* pooled connections that are checked out, and one record per client      *)
(* with the request that client has in flight and the handler's position   *)
(* (each await of a handler is a separate step).                           *)
(* Strings are sequences of one-character strings.                         *)
(***************************************************************************)
EXTENDS Integers, Sequences, FiniteSets, TLC

VARIABLES notes, nextId, active, req

vars == <<notes, nextId, active, req>>

\* ------------------------------------------------------------ bounds ----
MaxNotes == 2

connectionLimit == 5

Clients == {"c1", "c2"}

\* ------------------------------------------------------------ values ----
Undefined == <<"undefined">>
Null == <<"null">>
NotAString == <<"number">>

RawStrings == { <<" ", "a">>, <<"<">> }

Digits == <<"0", "1", "2", "3", "4", "5", "6", "7", "8", "9">>

IsDigit(ch) == \E i \in 1..10 : Digits[i] = ch

DigitValue(ch) == (CHOOSE i \in 1..10 : Digits[i] = ch) - 1

\* ------------------------------------------------- express-validator ----
isString(v) == v \notin {Undefined, Null, NotAString}

isInt(s) ==
    LET t == IF s # <<>> /\ Head(s) \in {"+", "-"} THEN Tail(s) ELSE s
    IN  /\ t # <<>>
        /\ \A i \in 1..Len(t) : IsDigit(t[i])
        /\ (t = <<"0">> \/ t[1] # "0")

RECURSIVE ltrim(_)
ltrim(s) == IF s # <<>> /\ Head(s) = " " THEN ltrim(Tail(s)) ELSE s

RECURSIVE rtrim(_)
rtrim(s) ==
    IF s # <<>> /\ s[Len(s)] = " " THEN rtrim(SubSeq(s, 1, Len(s) - 1)) ELSE s

trim(s) == rtrim(ltrim(s))

\* the three characters a TLA+ string cannot hold are named
DQUOTE == "dquote"
BACKSLASH == "backslash"
BACKTICK == "backtick"

escapeChar(ch) ==
    CASE ch = "&"  -> <<"&", "a", "m", "p", ";">>
      [] ch = DQUOTE -> <<"&", "q", "u", "o", "t", ";">>
      [] ch = "'"  -> <<"&", "#", "x", "2", "7", ";">>
      [] ch = "<"  -> <<"&", "l", "t", ";">>
      [] ch = ">"  -> <<"&", "g", "t", ";">>
      [] ch = "/"  -> <<"&", "#", "x", "2", "F", ";">>
      [] ch = BACKSLASH -> <<"&", "#", "x", "5", "C", ";">>
      [] ch = BACKTICK -> <<"&", "#", "9", "6", ";">>
      [] OTHER     -> <<ch>>

RECURSIVE escape(_)
escape(s) == IF s = <<>> THEN <<>> ELSE escapeChar(Head(s)) \o escape(Tail(s))

\* body(f).isString().trim().escape(): the sanitizers rewrite req.body[f]
sanitize(v) == IF isString(v) THEN escape(trim(v)) ELSE v

\* body(f).optional(): an undefined field is skipped by the whole chain
optionalOk(v) == v = Undefined \/ isString(v)

\* ----------------------------------------------------- SQL semantics ----
\* a JS undefined or null parameter is sent to the store as NULL
sqlParam(v) == IF v \in {Undefined, Null} THEN Null ELSE v

RECURSIVE digitsPrefix(_, _)
digitsPrefix(s, acc) ==
    IF s # <<>> /\ IsDigit(Head(s))
    THEN digitsPrefix(Tail(s), 10 * acc + DigitValue(Head(s)))
    ELSE acc

\* a string compared with an integer column is converted to a number:
\* optional sign, then the longest prefix of digits, 0 when there is none
sqlNumber(s) ==
    IF s # <<>> /\ Head(s) = "-" THEN 0 - digitsPrefix(Tail(s), 0)
    ELSE IF s # <<>> /\ Head(s) = "+" THEN digitsPrefix(Tail(s), 0)
    ELSE digitsPrefix(s, 0)

COALESCE(a, b) == IF a # Null THEN a ELSE b

selectAll == notes

selectById(id) == { r \in notes : r.id = sqlNumber(id) }

\* the title filter dropped
selectByTitleUnfiltered(title) == { r \in notes : r.title # Null }

selectByTitle(title) == { r \in notes : r.title # Null /\ r.title = title }

\* ------------------------------------------------------------ inputs ----
\* path parameters: decimal ids, a signed id, an id followed by a letter
IdParams == { <<"1">>, <<"2">>, <<"+", "1">>, <<"1", "x">> }

TitleParams == RawStrings \cup { sanitize(s) : s \in RawStrings }

\* request bodies: both fields, one field, none, a non-string, a null
Bodies ==
    { [title |-> <<" ", "a">>, content |-> <<"<">>],
      [title |-> <<"<">>, content |-> Undefined],
      [title |-> Undefined, content |-> <<" ", "a">>],
      [title |-> Undefined, content |-> Undefined],
      [title |-> NotAString, content |-> <<"<">>],
      [title |-> <<" ", "a">>, content |-> Null] }

\* the inputs of the runs with two concurrent clients
RaceIdParams == { <<"1">> }

RaceTitleParams == { sanitize(<<" ", "a">>) }

RaceBodies == { [title |-> <<" ", "a">>, content |-> <<"<">>] }

\* ------------------------------------------------------------- state ----
NoBody == [title |-> Undefined, content |-> Undefined]

\* a client's request: what was sent (op, id, body), the handler's locals
\* (title, content: req.body after the sanitizers), its position (pc) and
\* the response (status, rows, noteId, errors)
NoRequest ==
    [op |-> "none", pc |-> "idle", id |-> <<>>, body |-> NoBody,
     title |-> Undefined, content |-> Undefined, status |-> 0, rows |-> {},
     noteId |-> 0, errors |-> {}]

Init ==
    /\ notes = {}
    /\ nextId = 1
    /\ active = 0
    /\ req = [c \in Clients |-> NoRequest]

\* a client sends its next request once the previous one has been answered
CanSend(c) == req[c].pc \in {"idle", "done"}

\* the handler reaches `await pool.getConnection()`
Accept(c, op, id, body) ==
    req' = [req EXCEPT ![c] =
              [NoRequest EXCEPT !.op = op, !.pc = "getConnection", !.id = id,
                                !.body = body,
                                !.title = sanitize(body.title),
                                !.content = sanitize(body.content)]]

\* validationResult(req) is not empty: 400 with the failing fields
Invalid(c, op, id, body, errors) ==
    req' = [req EXCEPT ![c] =
              [NoRequest EXCEPT !.op = op, !.pc = "done", !.id = id,
                                !.body = body,
                                !.title = sanitize(body.title),
                                !.content = sanitize(body.content),
                                !.status = 400, !.errors = errors]]

\* res.status(s).json(...) / res.status(s).send(...): the request is answered
Answer(c, s, rows, noteId) ==
    req' = [req EXCEPT ![c] =
              [req[c] EXCEPT !.pc = "done", !.status = s, !.rows = rows,
                             !.noteId = noteId]]

\* conn.release()
release == active' = active - 1

\* --------------------------------------------------- requests arrive ----
\* Each handler runs synchronously up to its first await: the validation
\* chains, the validationResult check and the destructuring of the request.

listNotes(c) ==
    /\ CanSend(c)
    /\ Accept(c, "list", <<>>, NoBody)
    /\ UNCHANGED <<notes, nextId, active>>

getNoteById(c, id) ==
    /\ CanSend(c)
    /\ Accept(c, "getById", id, NoBody)
    /\ UNCHANGED <<notes, nextId, active>>

\* the :title path parameter is used as it arrives
getNotesByTitle(c, title) ==
    /\ CanSend(c)
    /\ req' = [req EXCEPT ![c] =
                 [NoRequest EXCEPT !.op = "getByTitle",
                                   !.pc = "getConnection", !.title = title]]
    /\ UNCHANGED <<notes, nextId, active>>

postErrors(body) ==
    {f \in {"title"} : ~isString(body.title)} \cup
    {f \in {"content"} : ~isString(body.content)}

\* inserts the store has yet to execute (the model creates MaxNotes notes)
pendingInserts ==
    Cardinality({d \in Clients : req[d].op = "post" /\ req[d].pc # "done"})

postNote(c, body) ==
    /\ CanSend(c)
    /\ IF postErrors(body) # {}
       THEN Invalid(c, "post", <<>>, body, postErrors(body))
       ELSE nextId + pendingInserts <= MaxNotes
            /\ Accept(c, "post", <<>>, body)
    /\ UNCHANGED <<notes, nextId, active>>

updateErrors(id, body) ==
    {f \in {"id"} : ~isInt(id)} \cup
    {f \in {"title"} : ~optionalOk(body.title)} \cup
    {f \in {"content"} : ~optionalOk(body.content)}

putNote(c, id, body) ==
    /\ CanSend(c)
    /\ IF updateErrors(id, body) # {}
       THEN Invalid(c, "put", id, body, updateErrors(id, body))
       ELSE Accept(c, "put", id, body)
    /\ UNCHANGED <<notes, nextId, active>>

patchNote(c, id, body) ==
    /\ CanSend(c)
    /\ IF updateErrors(id, body) # {}
       THEN Invalid(c, "patch", id, body, updateErrors(id, body))
       ELSE Accept(c, "patch", id, body)
    /\ UNCHANGED <<notes, nextId, active>>

\* DELETE without the id chain
deleteErrorsUnchecked(id) == {}

deleteErrors(id) == {f \in {"id"} : ~isInt(id)}

deleteNote(c, id) ==
    /\ CanSend(c)
    /\ IF deleteErrors(id) # {}
       THEN Invalid(c, "delete", id, NoBody, deleteErrors(id))
       ELSE Accept(c, "delete", id, NoBody)
    /\ UNCHANGED <<notes, nextId, active>>

\* ------------------------------------------------------------- pool ----
\* await pool.getConnection() resolves: a connection is checked out
getConnection(c) ==
    /\ req[c].pc = "getConnection"
    /\ active < connectionLimit
    /\ active' = active + 1
    /\ req' = [req EXCEPT ![c].pc = "query"]
    /\ UNCHANGED <<notes, nextId>>

\* a pool that lets the request wait for ever
getConnectionWaits(c) ==
    /\ req[c].pc = "getConnection"
    /\ active = connectionLimit
    /\ UNCHANGED vars

\* await pool.getConnection() rejects: no connection became free within the
\* pool's acquire timeout (createPool sets none, so the pool's default
\* applies); the handler's catch block answers 500
getConnectionTimeout(c) ==
    /\ req[c].pc = "getConnection"
    /\ active = connectionLimit
    /\ Answer(c, 500, {}, 0)
    /\ UNCHANGED <<notes, nextId, active>>

\* ---------------------------------------------------------- queries ----
\* await conn.query(...) resolves and the handler runs on to its next await
\* or to its response.

listQuery(c) ==
    /\ req[c].op = "list" /\ req[c].pc = "query"
    /\ release
    /\ Answer(c, 200, selectAll, 0)
    /\ UNCHANGED <<notes, nextId>>

getByIdQuery(c) ==
    /\ req[c].op = "getById" /\ req[c].pc = "query"
    /\ release
    /\ LET rows == selectById(req[c].id)
       IN  IF rows = {} THEN Answer(c, 404, {}, 0)
                        ELSE Answer(c, 200, rows, 0)
    /\ UNCHANGED <<notes, nextId>>

getByTitleQuery(c) ==
    /\ req[c].op = "getByTitle" /\ req[c].pc = "query"
    /\ release
    /\ LET rows == selectByTitle(req[c].title)
       IN  IF rows = {} THEN Answer(c, 404, {}, 0)
                        ELSE Answer(c, 200, rows, 0)
    /\ UNCHANGED <<notes, nextId>>

\* INSERT with the two values in the wrong order
insertNoteSwapped(title, content) ==
    /\ notes' = notes \cup {[id |-> nextId, title |-> sqlParam(content),
                             content |-> sqlParam(title)]}
    /\ nextId' = nextId + 1

\* INSERT INTO notes (title, content) VALUES (?, ?)
insertNote(title, content) ==
    /\ notes' = notes \cup {[id |-> nextId, title |-> sqlParam(title),
                             content |-> sqlParam(content)]}
    /\ nextId' = nextId + 1

postQuery(c) ==
    /\ req[c].op = "post" /\ req[c].pc = "query"
    /\ insertNote(req[c].title, req[c].content)
    /\ release
    /\ Answer(c, 201, {}, nextId)

\* PUT with PATCH's statement
updateNoteKeeping(id, title, content) ==
    { IF r.id = sqlNumber(id)
      THEN [r EXCEPT !.title = COALESCE(sqlParam(title), r.title),
                     !.content = COALESCE(sqlParam(content), r.content)]
      ELSE r : r \in notes }

\* UPDATE notes SET title = ?, content = ? WHERE id = ?
updateNote(id, title, content) ==
    { IF r.id = sqlNumber(id)
      THEN [r EXCEPT !.title = sqlParam(title), !.content = sqlParam(content)]
      ELSE r : r \in notes }

\* rows matched by WHERE id = ? (the connector reports found rows)
affectedRows(id) == Cardinality(selectById(id))

putQuery(c) ==
    /\ req[c].op = "put" /\ req[c].pc = "query"
    /\ notes' = updateNote(req[c].id, req[c].title, req[c].content)
    /\ release
    /\ IF affectedRows(req[c].id) = 0 THEN Answer(c, 404, {}, 0)
                                      ELSE Answer(c, 200, {}, 0)
    /\ UNCHANGED nextId

\* DELETE without its WHERE clause
deleteRowUnfiltered(id) == {}

\* DELETE FROM notes WHERE id = ?
deleteRow(id) == { r \in notes : r.id # sqlNumber(id) }

deleteQuery(c) ==
    /\ req[c].op = "delete" /\ req[c].pc = "query"
    /\ notes' = deleteRow(req[c].id)
    /\ release
    /\ IF affectedRows(req[c].id) = 0 THEN Answer(c, 404, {}, 0)
                                      ELSE Answer(c, 200, {}, 0)
    /\ UNCHANGED nextId

\* PATCH, first statement: SELECT * FROM notes WHERE id = ?
patchSelect(c) ==
    /\ req[c].op = "patch" /\ req[c].pc = "query"
    /\ IF selectById(req[c].id) = {}
       THEN release /\ Answer(c, 404, {}, 0)
       ELSE req' = [req EXCEPT ![c].pc = "update"] /\ UNCHANGED active
    /\ UNCHANGED <<notes, nextId>>

\* PATCH with PUT's statement
patchRowOverwriting(id, title, content) ==
    { IF r.id = sqlNumber(id)
      THEN [r EXCEPT !.title = sqlParam(title), !.content = sqlParam(content)]
      ELSE r : r \in notes }

\* UPDATE notes SET title = COALESCE(?, title),
\*                  content = COALESCE(?, content) WHERE id = ?
patchRow(id, title, content) ==
    { IF r.id = sqlNumber(id)
      THEN [r EXCEPT !.title = COALESCE(sqlParam(title), r.title),
                     !.content = COALESCE(sqlParam(content), r.content)]
      ELSE r : r \in notes }

\* PATCH, second statement; its result is not inspected
patchUpdate(c) ==
    /\ req[c].op = "patch" /\ req[c].pc = "update"
    /\ notes' = patchRow(req[c].id, req[c].title, req[c].content)
    /\ release
    /\ Answer(c, 200, {}, 0)
    /\ UNCHANGED nextId

\* await conn.query(...) rejects: control jumps to the catch block, which
\* logs and answers 500; conn.release() is skipped
queryFails(c) ==
    /\ req[c].pc \in {"query", "update"}
    /\ Answer(c, 500, {}, 0)
    /\ UNCHANGED <<notes, nextId, active>>

\* ---------------------------------------------------- specification ----
\* the steps a handler takes after its request was accepted
Handle(c) ==
    \/ getConnection(c)
    \/ getConnectionTimeout(c)
    \/ listQuery(c)
    \/ getByIdQuery(c)
    \/ getByTitleQuery(c)
    \/ postQuery(c)
    \/ putQuery(c)
    \/ deleteQuery(c)
    \/ patchSelect(c)
    \/ patchUpdate(c)
    \/ queryFails(c)

Request(c, ids, titles, bodies) ==
    \/ listNotes(c)
    \/ \E id \in ids : getNoteById(c, id)
    \/ \E t \in titles : getNotesByTitle(c, t)
    \/ \E b \in bodies : postNote(c, b)
    \/ \E id \in ids, b \in bodies : putNote(c, id, b)
    \/ \E id \in ids, b \in bodies : patchNote(c, id, b)
    \/ \E id \in ids : deleteNote(c, id)

\* one client at a time, the full input sets
Next == Request("c1", IdParams, TitleParams, Bodies) \/ Handle("c1")

Spec == Init /\ [][Next]_vars

\* two clients whose requests interleave at every await
RaceNext ==
    \E c \in Clients :
        Request(c, RaceIdParams, RaceTitleParams, RaceBodies) \/ Handle(c)

RaceSpec == Init /\ [][RaceNext]_vars

\* the event loop resumes a handler whose awaited promise has settled, and
\* every getConnection and every query settles
FairSpec == RaceSpec /\ \A c \in Clients : WF_vars(Handle(c))

\* ------------------------------------------------------------ claims ----
Ids(rows) == { r.id : r \in rows }

\* requests that hold a connection: between getConnection and the response
Holding == { c \in Clients : req[c].pc \in {"query", "update"} }

InFlight(c) == req[c].pc \in {"getConnection", "query", "update"}

Answered(c) ==
    req[c].pc = "done" /\ req[c].status \in {200, 201, 400, 404, 500}

\* the decimal notation of a note id, as a client writes it into a path
RECURSIVE toDecimal(_)
toDecimal(n) ==
    IF n < 10 THEN <<Digits[n + 1]>>
    ELSE toDecimal(n \div 10) \o <<Digits[(n % 10) + 1]>>

\* the path parameter id is an integer and names note n
Names(id, n) == id = toDecimal(n) \/ id = <<"+">> \o toDecimal(n)

IntegerText(id) == \E n \in 0..9 : Names(id, n)

\* the expected stored form of the strings the clients send: trimmed, and
\* with < replaced by the entity &lt;
Clean(raw) ==
    CASE raw = <<" ", "a">> -> <<"a">>
      [] raw = <<"<">>      -> <<"&", "l", "t", ";">>

\* client c's request is answered by this step, and not by a store failure
Completes(c, op) ==
    /\ req[c].op = op
    /\ req[c].pc \in {"query", "update"}
    /\ req'[c].pc = "done"
    /\ req'[c].status # 500

\* C1: the number of connections checked out of the pool equals the number
\* of requests between acquisition and response, so no connection stays
\* held after its request was answered (also after a 500).
C1_ConnectionsReleased == active = Cardinality(Holding)

\* C4: every persisted note has a non-null id, title and content.
C4_NotesNonNull ==
    \A r \in notes : r.id \in Nat /\ r.title # Null /\ r.content # Null

\* C9: a PATCH that answers 200 has updated a row: the note with its id is
\* present when its UPDATE statement executes.
C9_PatchOkUpdatedARow ==
    [][\A c \in Clients :
          (Completes(c, "patch") /\ req'[c].status = 200)
              => \E r \in notes : Names(req[c].id, r.id)]_vars

PatchExpected(raw, prior) == IF raw = Undefined THEN prior ELSE Clean(raw)

C2_PatchKeepsOmittedColumns ==
    [][\A c \in Clients :
          (Completes(c, "patch") /\ req'[c].status = 200) =>
              /\ Ids(notes') = Ids(notes)
              /\ Cardinality(notes') = Cardinality(notes)
              /\ \A r \in notes :
                    IF Names(req[c].id, r.id)
                    THEN [id |-> r.id,
                          title |-> PatchExpected(req[c].body.title, r.title),
                          content |->
                              PatchExpected(req[c].body.content, r.content)]
                             \in notes'
                    ELSE r \in notes']_vars

\* a PATCH that omitted content was answered 200; the note has the new
\* title and still has a content, and there is another note
C2_Witness ==
    /\ req["c1"].op = "patch" /\ req["c1"].pc = "done"
    /\ req["c1"].status = 200
    /\ req["c1"].body.title = <<"<">>
    /\ req["c1"].body.content = Undefined
    /\ \E r \in notes :
          /\ Names(req["c1"].id, r.id)
          /\ r.title = <<"&", "l", "t", ";">>
          /\ r.content = <<"&", "l", "t", ";">>
    /\ Cardinality(notes) = 2

\* C3: a PUT with an integer id that matches a row answers 200, sets title
\* and content of that row to the supplied values and an omitted one to
\* null; a PUT that matches no row answers 404 and changes nothing; every
\* other note is unchanged.
PutExpected(raw) == IF raw = Undefined THEN Null ELSE Clean(raw)

C3_PutReplacesBothColumns ==
    [][\A c \in Clients :
          Completes(c, "put") =>
              IF \E r \in notes : Names(req[c].id, r.id)
              THEN /\ req'[c].status = 200
                   /\ Ids(notes') = Ids(notes)
                   /\ Cardinality(notes') = Cardinality(notes)
                   /\ \A r \in notes :
                         IF Names(req[c].id, r.id)
                         THEN [id |-> r.id,
                               title |-> PutExpected(req[c].body.title),
                               content |-> PutExpected(req[c].body.content)]
                                  \in notes'
                         ELSE r \in notes'
              ELSE req'[c].status = 404 /\ notes' = notes]_vars

\* a PUT that omitted content was answered 200 and the note's content is
\* null, while another note is stored
C3_Witness ==
    /\ req["c1"].op = "put" /\ req["c1"].pc = "done"
    /\ req["c1"].status = 200
    /\ req["c1"].body.title = <<"<">>
    /\ req["c1"].body.content = Undefined
    /\ \E r \in notes :
          /\ Names(req["c1"].id, r.id)
          /\ r.title = <<"&", "l", "t", ";">>
          /\ r.content = Null
    /\ Cardinality(notes) = 2

\* C5: a POST whose title or content is not a string, and a PUT, PATCH or
\* DELETE whose id is not an integer or whose supplied title or content is
\* not a string, is answered 400 in the step it arrives in: no connection
\* is acquired and the store and the pool are unchanged.
BadRequest(q) ==
    \/ /\ q.op = "post"
       /\ \/ q.body.title \in {Undefined, Null, NotAString}
          \/ q.body.content \in {Undefined, Null, NotAString}
    \/ /\ q.op \in {"put", "patch", "delete"}
       /\ ~IntegerText(q.id)
    \/ /\ q.op \in {"put", "patch"}
       /\ \/ q.body.title \in {Null, NotAString}
          \/ q.body.content \in {Null, NotAString}

C5_ValidationBeforeStore ==
    [][\A c \in Clients :
          (CanSend(c) /\ req'[c] # req[c] /\ BadRequest(req'[c])) =>
              /\ req'[c].pc = "done"
              /\ req'[c].status = 400
              /\ req'[c].errors # {}
              /\ notes' = notes /\ nextId' = nextId /\ active' = active]_vars

\* a DELETE of "1x" was answered 400 while note 1 is stored and no
\* connection is checked out
C5_Witness ==
    /\ req["c1"].op = "delete" /\ req["c1"].pc = "done"
    /\ req["c1"].status = 400
    /\ req["c1"].id = <<"1", "x">>
    /\ 1 \in Ids(notes)
    /\ active = 0

\* C6: a DELETE with an integer id that matches a row removes exactly that
\* row and answers 200; one that matches no row answers 404 and changes
\* nothing; and only a create adds a row, so a second DELETE of the id with
\* no create in between answers 404.
C6_DeleteRemovesExactlyTheRow ==
    [][/\ \A c \in Clients :
             Completes(c, "delete") =>
                 LET hit == { r \in notes : Names(req[c].id, r.id) }
                 IN  IF hit # {}
                     THEN req'[c].status = 200 /\ notes' = notes \ hit
                     ELSE req'[c].status = 404 /\ notes' = notes
       /\ \/ Ids(notes') \subseteq Ids(notes)
          \/ \E c \in Clients : Completes(c, "post")]_vars

\* a DELETE of note 1 was answered 404 after note 1 had been created and
\* deleted, while note 2 is still stored
C6_Witness ==
    /\ req["c1"].op = "delete" /\ req["c1"].pc = "done"
    /\ req["c1"].status = 404
    /\ req["c1"].id = <<"1">>
    /\ nextId > 2
    /\ Ids(notes) = {2}

\* C7: a create answered 201 returns an id no stored note has, adds exactly
\* one note with the trimmed and escaped title and content and leaves the
\* other notes unchanged; a get-by-id of a stored note's id answers 200 with
\* exactly that note; a stored note changes only by a replace, patch or
\* delete of its id, and no two notes share an id.
C7_CreateThenGetById ==
    [][/\ \A c \in Clients :
             (Completes(c, "post") /\ req'[c].status = 201) =>
                 /\ req'[c].noteId \notin Ids(notes)
                 /\ notes' = notes \cup
                       {[id |-> req'[c].noteId,
                         title |-> Clean(req[c].body.title),
                         content |-> Clean(req[c].body.content)]}
                 /\ Cardinality(notes') = Cardinality(notes) + 1
       /\ \A c \in Clients :
             Completes(c, "getById") =>
                 \A r \in notes :
                     req[c].id = toDecimal(r.id) =>
                         req'[c].status = 200 /\ req'[c].rows = {r}
       /\ \A r \in notes :
             \/ r \in notes'
             \/ \E c \in Clients :
                   /\ req[c].op \in {"put", "patch", "delete"}
                   /\ req[c].pc \in {"query", "update"}
                   /\ req'[c].pc = "done"
                   /\ Names(req[c].id, r.id)
       /\ \A r \in notes', q \in notes' : r.id = q.id => r = q]_vars

\* a get-by-id of note 2 was answered 200 with the note as it was created
C7_Witness ==
    /\ req["c1"].op = "getById" /\ req["c1"].pc = "done"
    /\ req["c1"].status = 200
    /\ req["c1"].id = toDecimal(2)
    /\ req["c1"].rows =
          {[id |-> 2, title |-> <<"a">>, content |-> <<"&", "l", "t", ";">>]}
    /\ req["c1"].rows \subseteq notes

\* C8: list-all answers 200 with all notes, also when there are none;
\* get-by-title answers 200 with exactly the notes whose title equals the
\* parameter and 404 when there is none; get-by-id answers 200 with the
\* matching note and 404 when no row matches; no read changes the store.
C8_ReadsMapEmptyResults ==
    [][\A c \in Clients :
          /\ Completes(c, "list") =>
                req'[c].status = 200 /\ req'[c].rows = notes
          /\ Completes(c, "getByTitle") =>
                LET m == { r \in notes : r.title = req[c].title }
                IN  IF m # {}
                    THEN req'[c].status = 200 /\ req'[c].rows = m
                    ELSE req'[c].status = 404
          /\ Completes(c, "getById") =>
                /\ req'[c].status \in {200, 404}
                /\ req'[c].status = 200 =>
                      /\ req'[c].rows \subseteq notes
                      /\ Cardinality(req'[c].rows) = 1
                /\ \A r \in notes :
                      req[c].id = toDecimal(r.id) =>
                          req'[c].status = 200 /\ req'[c].rows = {r}
                /\ (IntegerText(req[c].id)
                       /\ \A r \in notes : ~Names(req[c].id, r.id))
                      => req'[c].status = 404
          /\ (req[c].op \in {"list", "getByTitle", "getById"}
                 /\ req'[c].pc # req[c].pc)
                => notes' = notes /\ nextId' = nextId]_vars

\* a get-by-title was answered 200 with some but not all of the notes
C8_Witness ==
    /\ req["c1"].op = "getByTitle" /\ req["c1"].pc = "done"
    /\ req["c1"].status = 200
    /\ req["c1"].rows # {}
    /\ req["c1"].rows # notes
    /\ req["c1"].rows = { r \in notes : r.title = req["c1"].title }

====
